---------------------------- MODULE Spec2Model ----------------------------
(***************************************************************************)
(* A model of craft_planner.py: the State value type, rule compilation     *)
(* (make_checker / make_effector), the successor generator graph(), the    *)
(* goal predicate, the heuristic hook and the time-bounded best-first      *)
(* search with path reconstruction.                                        *)
(***************************************************************************)
EXTENDS Integers, Sequences, FiniteSets, TLC

(***************************************************************************)
(* Bounds of the model.                                                    *)
(***************************************************************************)
\* rule costs ('Time') range over 0..MaxCost
MaxCost == 2
\* quantities stored into a State by hand range over 0..MaxQty
MaxQty == 1
\* values a caller-supplied heuristic may return: 0..MaxH, or inf
MaxH == 1

\* math.inf (line 4): larger than every finite priority the model can build
inf == 1000000
\* the value the reference heuristic falls through to (line 113)
HeuristicDefault == 15
\* marks a call of the reference heuristic that raises TypeError (line 110)
TypeError == -1

(***************************************************************************)
(* State: an OrderedDict, i.e. a sequence of <<name, quantity>> pairs in   *)
(* insertion order.                                                        *)
(***************************************************************************)
\* the item names of the domain, Crafting['Items'], in declaration order
Items == <<"a", "b", "c">>

\* Python's ordering of the strings the model uses
StrOrder == <<"a", "b", "c", "d", "ghost">>
StrRank(x) == CHOOSE i \in 1..Len(StrOrder) : StrOrder[i] = x
StrLt(x, y) == StrRank(x) < StrRank(y)

Keys(st) == {st[i][1] : i \in 1..Len(st)}
HasKey(st, name) == name \in Keys(st)
\* st[name]; only called on a key that is present
Get(st, name) == st[CHOOSE i \in 1..Len(st) : st[i][1] = name][2]
\* a slip: the key is deleted and inserted again, so it moves to the end
SetItemMovingToEnd(st, name, v) ==
    Append(SelectSeq(st, LAMBDA p : p[1] # name), <<name, v>>)

\* st[name] = v: an existing key keeps its position, a new key is appended
SetItem(st, name, v) ==
    IF HasKey(st, name)
    THEN [i \in 1..Len(st) |-> IF st[i][1] = name THEN <<name, v>> ELSE st[i]]
    ELSE Append(st, <<name, v>>)

\* State.__key: tuple(self.items())
Key(st) == st

\* Python's < on two (name, quantity) pairs
PairLt(p, q) == IF p[1] # q[1] THEN StrLt(p[1], q[1]) ELSE p[2] < q[2]

\* Python's < on two tuples of pairs: the first differing position decides,
\* a proper prefix is smaller
RECURSIVE TupleLt(_, _)
TupleLt(s, t) ==
    IF s = <<>> THEN t # <<>>
    ELSE IF t = <<>> THEN FALSE
    ELSE IF Head(s) # Head(t) THEN PairLt(Head(s), Head(t))
    ELSE TupleLt(Tail(s), Tail(t))

\* State.__lt__
StateLt(s, t) == TupleLt(Key(s), Key(t))

\* a slip: the equality of plain dicts, which ignores the order
StateEqAnyOrder(s, t) == {s[i] : i \in 1..Len(s)} = {t[i] : i \in 1..Len(t)}

\* OrderedDict.__eq__ between two OrderedDicts: equal items in equal order
StateEq(s, t) == Key(s) = Key(t)

\* State.copy: a new State updated with the items of st, in st's order
\* (CHOOSE over a singleton: new_state is computed once)
RECURSIVE UpdateFrom(_, _)
UpdateFrom(new_state, items) ==
    IF items = <<>> THEN new_state
    ELSE CHOOSE r \in {UpdateFrom(SetItem(v, Head(items)[1], Head(items)[2]), Tail(items)) :
                          v \in {new_state}} : TRUE
copy(st) == UpdateFrom(<<>>, st)

\* hash() of a str: it varies with the interpreter's hash seed
StrHash(seed, x) == (StrRank(x) * (2 * seed + 1) * 40503) % 65536
\* hash() of a small int is the int
IntHash(n) == n
\* hash() of a tuple: the hashes of the elements are mixed in, in order, into an
\* accumulator of fixed width
RECURSIVE TupleHashFrom(_, _)
TupleHashFrom(acc, lanes) ==
    IF lanes = <<>> THEN acc
    ELSE TupleHashFrom((acc * 31 + Head(lanes)) % 65536, Tail(lanes))
TupleHash(lanes) == TupleHashFrom(Len(lanes) + 1, lanes)
\* State.__hash__: hash(self.__key())
Hash(seed, st) ==
    TupleHash([i \in 1..Len(Key(st)) |->
                  TupleHash(<<StrHash(seed, Key(st)[i][1]), IntHash(Key(st)[i][2])>>)])

(***************************************************************************)
(* Rules.  A rule description is a record: keys (which of the optional     *)
(* clauses are present), Consumes and Produces (item -> amount), Requires  *)
(* (a set of items) and Time.                                              *)
(* An item -> amount mapping is a set of <<item, amount>> pairs.           *)
(***************************************************************************)
\* a slip: the Consumes clause is not looked at
checkRequiresOnly(rule, st) ==
    "Requires" \in rule.keys => \A name \in rule.Requires : ~(Get(st, name) < 1)

\* check(state) of make_checker(rule)
check(rule, st) ==
    /\ ("Consumes" \in rule.keys =>
            \A p \in rule.Consumes : ~(Get(st, p[1]) < p[2]))
    /\ ("Requires" \in rule.keys =>
            \A name \in rule.Requires : ~(Get(st, name) < 1))

RECURSIVE AddAll(_, _, _)
\* for name, amount in m.items(): next_state[name] += sign * amount
AddAll(next_state, m, sign) ==
    IF m = {} THEN next_state
    ELSE CHOOSE r \in {AddAll(SetItem(v, p[1], Get(v, p[1]) + sign * p[2]), m \ {p}, sign) :
                          v \in {next_state}, p \in {CHOOSE q \in m : TRUE}} : TRUE

\* effect(state) of make_effector(rule)
effect(rule, st) ==
    LET next_state == copy(st)
        consumed   == IF "Consumes" \in rule.keys
                      THEN AddAll(next_state, rule.Consumes, -1)
                      ELSE next_state
    IN  AddAll(consumed, rule.Produces, 1)

\* a slip: the quantity has to be exactly the goal's amount
is_goalExact(g, st) == \A p \in g : Get(st, p[1]) = p[2]

\* is_goal(state) of make_goal_checker(goal)
is_goal(g, st) == \A p \in g : ~(Get(st, p[1]) < p[2])

(***************************************************************************)
(* The program state.                                                      *)
(***************************************************************************)
VARIABLES
    Crafting,        \* the loaded domain: Items, Initial, Goal, Recipes
    all_recipes,     \* the compiled Recipe list (global, lines 187-192)
    goal,            \* the goal captured by is_goal (line 196)
    state,           \* the initial state handed to search (lines 200-205)
    h_kind,          \* which heuristic search was given: "reference" or "any"
    h_table,         \* the values the given heuristic has returned so far
    elapsed,         \* time() - start_time >= limit
    pc,              \* where the program is: "compile", then in search "outer",
                     \* "inner", "walk", "done", "raised"; "values" outside a run
    frontier,        \* the heap of (priority, state) entries
    came_from_dict,  \* state -> None or (predecessor, rule name)
    cost_so_far,     \* state -> accumulated cost
    current,         \* the state popped last
    came_from,       \* the walk-back position (line 135)
    ret_list,        \* the (state, name) pairs collected by the walk-back
    result,          \* what search returned
    popped,          \* the states popped in this pass, in order
    first_pass,      \* the states popped in the first pass of this call
    restarted,       \* whether this call has completed a pass
    run,             \* how many times search has been called: 1 or 2
    last_run,        \* what the previous call popped and returned
    s1, s2,          \* two State values built item by item
    hashseed         \* the interpreter's hash seed

vars == <<Crafting, all_recipes, goal, state, h_kind, h_table, elapsed, pc,
          frontier, came_from_dict, cost_so_far, current, came_from, ret_list,
          result, popped, first_pass, restarted, run, last_run, s1, s2, hashseed>>

value_vars == <<s1, s2, hashseed>>
\* what search is given and never writes
domain_vars == <<Crafting, all_recipes, goal, state, h_kind, value_vars>>
pass_vars == <<frontier, came_from_dict, cost_so_far, current, popped>>
walk_vars == <<came_from, ret_list>>
hist_vars == <<first_pass, restarted, run, last_run>>

None == <<>>
EmptyDict == [x \in {} |-> 0]
Pending == [kind |-> "pending", plan |-> <<>>]
Failure == [kind |-> "None", plan |-> <<>>]
Plan(p) == [kind |-> "plan", plan |-> p]
NoRun == [seen |-> FALSE, popped |-> <<>>, restarted |-> FALSE, result |-> Pending]

RECURSIVE reversed(_)
reversed(s) == IF s = <<>> THEN <<>> ELSE Append(reversed(Tail(s)), Head(s))

(***************************************************************************)
(* Domain data: the rule descriptions a domain file may hold.              *)
(***************************************************************************)
Shapes == <<
    [name |-> "a_to_c",  keys |-> {"Consumes"}, Consumes |-> {<<"a", 1>>},
     Requires |-> {}, Produces |-> {<<"c", 1>>}],
    [name |-> "a_to_b", keys |-> {"Consumes"}, Consumes |-> {<<"a", 1>>},
     Requires |-> {}, Produces |-> {<<"b", 1>>}],
    [name |-> "a_to_b2",  keys |-> {"Consumes"}, Consumes |-> {<<"a", 1>>},
     Requires |-> {}, Produces |-> {<<"b", 1>>}],
    [name |-> "b_gives_c", keys |-> {"Requires"}, Consumes |-> {},
     Requires |-> {"b"}, Produces |-> {<<"c", 1>>}],
    [name |-> "b_to_a",  keys |-> {"Consumes"}, Consumes |-> {<<"b", 1>>},
     Requires |-> {}, Produces |-> {<<"a", 1>>}] >>

Goals == { {<<"c", 1>>}, {<<"b", 1>>, <<"c", 1>>} }
Initials == { {<<"a", 1>>} }
Costs == 0..MaxCost
\* rule descriptions of a domain file that nobody validated: some name the item
\* "ghost", which Crafting['Items'] does not declare
RawShapes == <<
    [name |-> "a_to_c",  keys |-> {"Consumes"}, Consumes |-> {<<"a", 1>>},
     Requires |-> {}, Produces |-> {<<"c", 1>>}],
    [name |-> "ghost_to_c", keys |-> {"Consumes"}, Consumes |-> {<<"ghost", 1>>},
     Requires |-> {}, Produces |-> {<<"c", 1>>}],
    [name |-> "a_to_ghost", keys |-> {"Consumes"}, Consumes |-> {<<"a", 1>>},
     Requires |-> {}, Produces |-> {<<"ghost", 1>>}],
    [name |-> "ghost_gives_b", keys |-> {"Requires"}, Consumes |-> {},
     Requires |-> {"ghost"}, Produces |-> {<<"b", 1>>}] >>
\* a domain with a fourth item, in which the state (b: 1) is reached both by one
\* rule and by a chain of three
DiamondItems == <<"a", "b", "c", "d">>
DiamondShapes == <<
    [name |-> "a_to_b",  keys |-> {"Consumes"}, Consumes |-> {<<"a", 1>>},
     Requires |-> {}, Produces |-> {<<"b", 1>>}],
    [name |-> "a_to_c",  keys |-> {"Consumes"}, Consumes |-> {<<"a", 1>>},
     Requires |-> {}, Produces |-> {<<"c", 1>>}],
    [name |-> "c_to_d",  keys |-> {"Consumes"}, Consumes |-> {<<"c", 1>>},
     Requires |-> {}, Produces |-> {<<"d", 1>>}],
    [name |-> "d_to_b",  keys |-> {"Consumes"}, Consumes |-> {<<"d", 1>>},
     Requires |-> {}, Produces |-> {<<"b", 1>>}],
    [name |-> "b_to_cd", keys |-> {"Consumes"}, Consumes |-> {<<"b", 1>>},
     Requires |-> {}, Produces |-> {<<"c", 1>>, <<"d", 1>>}] >>
DiamondGoals == { {<<"c", 1>>, <<"d", 1>>} }
\* the 'Time' values of such a file
RawCosts == (-1)..MaxCost
Quantities == 0..MaxQty
\* the goals over the declared items: an amount for some of the items
GoalMappings ==
    {m \in SUBSET ({Items[i] : i \in 1..Len(Items)} \X Quantities) :
        \A p, q \in m : p[1] = q[1] => p = q}
HashSeeds == {0, 1}
HVals == (0..MaxH) \cup {inf}

\* Crafting['Recipes']: the picked shapes, in the order of shapes, each with its Time
RECURSIVE RecipesOf(_, _, _, _)
RecipesOf(shapes, i, picked, time) ==
    IF i > Len(shapes) THEN <<>>
    ELSE IF i \in picked
         THEN <<[name |-> shapes[i].name, keys |-> shapes[i].keys,
                 Consumes |-> shapes[i].Consumes, Requires |-> shapes[i].Requires,
                 Produces |-> shapes[i].Produces, Time |-> time[i]]>>
              \o RecipesOf(shapes, i + 1, picked, time)
         ELSE RecipesOf(shapes, i + 1, picked, time)

\* Recipe(name, checker, effector, rule['Time']): the closures are the rule they captured
Recipe(rule) == [name |-> rule.name, rule |-> rule, cost |-> rule.Time]

\* the compilation loop of the main program
BuildRules(recipes) == [i \in 1..Len(recipes) |-> Recipe(recipes[i])]

\* State({key: 0 for key in Crafting['Items']}) then state.update(Crafting['Initial'])
RECURSIVE UpdateAll(_, _)
UpdateAll(st, m) ==
    IF m = {} THEN st
    ELSE LET p == CHOOSE p \in m : TRUE IN UpdateAll(SetItem(st, p[1], p[2]), m \ {p})
InitialState(items, initial) ==
    UpdateAll([i \in 1..Len(items) |-> <<items[i], 0>>], initial)

(***************************************************************************)
(* Successor generation, the heuristic and the heap.                       *)
(***************************************************************************)
\* graph(state): one (name, effect(state), cost) per recipe whose check holds,
\* in the order of all_recipes
RECURSIVE graph_from(_, _, _)
graph_from(recipes, i, st) ==
    IF i > Len(recipes) THEN <<>>
    ELSE LET r == recipes[i]
         IN  IF check(r.rule, st)
             THEN <<[name |-> r.name, next |-> effect(r.rule, st), cost |-> r.cost]>>
                  \o graph_from(recipes, i + 1, st)
             ELSE graph_from(recipes, i + 1, st)

\* a slip: a triple is yielded for every recipe, whatever its check says
graphUnchecked(st) ==
    [i \in 1..Len(all_recipes) |->
        [name |-> all_recipes[i].name, next |-> effect(all_recipes[i].rule, st),
         cost |-> all_recipes[i].cost]]

graph(st) == graph_from(all_recipes, 1, st)

\* the reference heuristic; recipe is the global left by the compilation loop
RECURSIVE heuristic_from(_, _, _)
heuristic_from(st, i, recipe) ==
    IF i > Len(st) THEN HeuristicDefault
    ELSE IF st[i][2] = 0 THEN heuristic_from(st, i + 1, recipe)
    ELSE IF st[i][1] = recipe.name
         THEN TypeError   \* recipe[item] indexes a tuple with a string
         ELSE heuristic_from(st, i + 1, recipe)
heuristic(st) == heuristic_from(st, 1, all_recipes[Len(all_recipes)])

\* float addition of a cost and a heuristic value
Plus(x, y) == IF x = inf \/ y = inf THEN inf ELSE x + y

\* Python's < on two (priority, state) heap entries
EntryLt(e, f) ==
    IF e[1] # f[1] THEN e[1] < f[1] ELSE StateLt(e[2], f[2])

\* heappush(frontier, entry)
heappush(heap, entry) == Append(heap, entry)

\* a slip: the entry pushed first is popped, as from a queue
HeapFirstIndex(heap) == 1

\* the position of the entry heappop(frontier) returns: a smallest one
HeapMinIndex(heap) ==
    CHOOSE i \in 1..Len(heap) : \A j \in 1..Len(heap) : ~EntryLt(heap[j], heap[i])

\* the entry heappop(frontier) returns
HeapMin(heap) == heap[HeapMinIndex(heap)]

\* the heap heappop(frontier) leaves
HeapRest(heap) ==
    LET i == HeapMinIndex(heap)
    IN  SubSeq(heap, 1, i - 1) \o SubSeq(heap, i + 1, Len(heap))

\* a slip: a state's first recorded cost is never improved
ImprovesFirstOnly(cs, next, new_cost) == next \notin DOMAIN cs

\* a slip: an equal cost also replaces the recorded one
ImprovesOrEqual(cs, next, new_cost) == next \notin DOMAIN cs \/ new_cost <= cs[next]

\* whether the successor is recorded (lines 156-157)
Improves(cs, next, new_cost) == next \notin DOMAIN cs \/ new_cost < cs[next]

\* the priority of a pushed successor (line 160)
Priority(new_cost, hv) == Plus(new_cost, hv)

\* a slip: the search's initial state recorded in place of the expanded one
PredOfInitial(cur, name) == <<state, name>>

\* the predecessor recorded for a successor (line 162)
Pred(cur, name) == <<cur, name>>

\* one turn of the for loop over graph(current), lines 155-162, for the successor s
RelaxOne(s, cur, hv, m) ==
    LET new_cost == s.cost + m.cost_so_far[cur]
    IN  IF Improves(m.cost_so_far, s.next, new_cost)
        THEN [cost_so_far |-> (s.next :> new_cost) @@ m.cost_so_far,
              frontier |-> heappush(m.frontier, <<Priority(new_cost, hv), s.next>>),
              came_from_dict |-> (s.next :> Pred(cur, s.name)) @@ m.came_from_dict,
              pushed |-> TRUE]
        ELSE m

\* the for loop, lines 155-162: the maps and the frontier after the successors
\* succs[i..] have been handled (CHOOSE over a singleton: m is computed once)
RECURSIVE Relax(_, _, _, _, _)
Relax(succs, i, cur, hv, m) ==
    IF i > Len(succs) THEN m
    ELSE CHOOSE r \in {Relax(succs, i + 1, cur, hv, RelaxOne(succs[i], cur, hv, v)) :
                          v \in {m}} : TRUE

(***************************************************************************)
(* search(graph, state, is_goal, limit, heuristic)                         *)
(***************************************************************************)
\* the clock passes the limit
Tick ==
    /\ pc \in {"outer", "inner", "walk"}
    /\ ~elapsed
    /\ elapsed' = TRUE
    /\ UNCHANGED <<domain_vars, h_table, pc, pass_vars, walk_vars, result, hist_vars>>

\* a slip: the cost map of the pass before is kept
StartPassKeepingCosts ==
    /\ pc = "outer"
    /\ ~elapsed
    /\ frontier' = heappush(<<>>, <<0, state>>)
    /\ came_from_dict' = (state :> None)
    /\ cost_so_far' = (state :> 0) @@ cost_so_far
    /\ popped' = <<>>
    /\ pc' = "inner"
    /\ UNCHANGED <<domain_vars, h_table, elapsed, current, walk_vars, result, hist_vars>>

\* line 122 true, lines 124-129: a pass starts
StartPass ==
    /\ pc = "outer"
    /\ ~elapsed
    /\ frontier' = heappush(<<>>, <<0, state>>)
    /\ came_from_dict' = (state :> None)
    /\ cost_so_far' = (state :> 0)
    /\ popped' = <<>>
    /\ pc' = "inner"
    /\ UNCHANGED <<domain_vars, h_table, elapsed, current, walk_vars, result, hist_vars>>

\* a slip: failure returned once a pass has exhausted the frontier, whatever the clock
ReturnNoneOnExhaustion ==
    /\ pc = "outer"
    /\ elapsed \/ restarted
    /\ result' = Failure
    /\ pc' = "done"
    /\ UNCHANGED <<domain_vars, h_table, elapsed, pass_vars, walk_vars, hist_vars>>

\* a slip: the deadline is also read inside a pass
ReturnNoneWhenElapsed ==
    /\ pc \in {"outer", "inner"}
    /\ elapsed
    /\ result' = Failure
    /\ pc' = "done"
    /\ UNCHANGED <<domain_vars, h_table, elapsed, pass_vars, walk_vars, hist_vars>>

\* line 122 false, lines 164-167
ReturnNone ==
    /\ pc = "outer"
    /\ elapsed
    /\ result' = Failure
    /\ pc' = "done"
    /\ UNCHANGED <<domain_vars, h_table, elapsed, pass_vars, walk_vars, hist_vars>>

\* line 130 false: the frontier is exhausted, back to line 122
Exhausted ==
    /\ pc = "inner"
    /\ frontier = <<>>
    /\ pc' = "outer"
    /\ first_pass' = IF restarted THEN first_pass ELSE popped
    /\ restarted' = TRUE
    /\ UNCHANGED <<domain_vars, h_table, elapsed, pass_vars, walk_vars, result,
                   run, last_run>>

\* lines 131-137: a goal state is popped and the walk-back starts
PopGoal ==
    /\ pc = "inner"
    /\ frontier # <<>>
    /\ \E cur \in {HeapMin(frontier)[2]} :
           /\ is_goal(goal, cur)
           /\ current' = cur
           /\ frontier' = HeapRest(frontier)
           /\ popped' = Append(popped, cur)
           /\ came_from' = cur
           /\ ret_list' = <<<<cur, "complete">>>>
    /\ pc' = "walk"
    /\ UNCHANGED <<domain_vars, h_table, elapsed, came_from_dict, cost_so_far,
                   result, hist_vars>>

\* the values heuristic(cur) may return when the successors succs are handled
HeuristicValues(cur, succs) ==
    IF succs = <<>> THEN {0}
    ELSE IF h_kind = "reference" THEN {heuristic(cur)}
    ELSE IF cur \in DOMAIN h_table THEN {h_table[cur]}
    ELSE HVals

\* lines 131-133 and 155-162: a state that is no goal is popped and expanded
Expand ==
    /\ pc = "inner"
    /\ frontier # <<>>
    /\ \E cur \in {HeapMin(frontier)[2]} :
       \E succs \in {graph(cur)} :
       \E h \in HeuristicValues(cur, succs) :
       \E m \in {Relax(succs, 1, cur, h,
                       [cost_so_far |-> cost_so_far, frontier |-> HeapRest(frontier),
                        came_from_dict |-> came_from_dict, pushed |-> FALSE])} :
           /\ ~is_goal(goal, cur)
           /\ current' = cur
           /\ popped' = Append(popped, cur)
           /\ IF m.pushed /\ h = TypeError
              THEN /\ pc' = "raised"
                   /\ frontier' = HeapRest(frontier)
                   /\ UNCHANGED <<cost_so_far, came_from_dict, h_table>>
              ELSE /\ pc' = "inner"
                   /\ frontier' = m.frontier
                   /\ cost_so_far' = m.cost_so_far
                   /\ came_from_dict' = m.came_from_dict
                   /\ h_table' = IF m.pushed /\ h_kind = "any"
                                 THEN (cur :> h) @@ h_table ELSE h_table
    /\ UNCHANGED <<domain_vars, elapsed, walk_vars, result, hist_vars>>

\* lines 141-144: one step of the walk-back
WalkStep ==
    /\ pc = "walk"
    /\ ~StateEq(came_from, state)
    /\ \E e \in {came_from_dict[came_from]} :
           /\ came_from' = e[1]
           /\ ret_list' = Append(ret_list, <<e[1], e[2]>>)
    /\ UNCHANGED <<domain_vars, h_table, elapsed, pc, pass_vars, result, hist_vars>>

\* lines 141 false, 145-148
ReturnPlan ==
    /\ pc = "walk"
    /\ StateEq(came_from, state)
    /\ result' = Plan(reversed(ret_list))
    /\ pc' = "done"
    /\ UNCHANGED <<domain_vars, h_table, elapsed, pass_vars, walk_vars, hist_vars>>

\* search is called again on the same arguments
Rerun ==
    /\ pc = "done"
    /\ run = 1
    /\ result.kind = "plan"
    /\ run' = run + 1
    /\ last_run' = [seen |-> TRUE, popped |-> popped, restarted |-> restarted,
                    result |-> result]
    /\ pc' = "outer"
    /\ elapsed' = FALSE
    /\ result' = Pending
    /\ frontier' = <<>>
    /\ came_from_dict' = EmptyDict
    /\ cost_so_far' = EmptyDict
    /\ popped' = <<>>
    /\ first_pass' = <<>>
    /\ restarted' = FALSE
    /\ ret_list' = <<>>
    /\ UNCHANGED <<domain_vars, h_table, current, came_from>>

\* no call of search has started
SearchIdle ==
    /\ h_table = EmptyDict
    /\ elapsed = FALSE
    /\ frontier = <<>>
    /\ came_from_dict = EmptyDict
    /\ cost_so_far = EmptyDict
    /\ current = None
    /\ came_from = None
    /\ ret_list = <<>>
    /\ result = Pending
    /\ popped = <<>>
    /\ first_pass = <<>>
    /\ restarted = FALSE
    /\ run = 1
    /\ last_run = NoRun

\* no State has been built by hand
NoValues ==
    /\ s1 = <<>>
    /\ s2 = <<>>
    /\ hashseed = 0

\* the main program has compiled a domain file and is about to call search
Init ==
    /\ \E picked \in SUBSET (1..Len(Shapes)) :
       \E time \in [picked -> Costs], g \in Goals, initial \in Initials :
          Crafting = [Items |-> Items, Initial |-> initial, Goal |-> g,
                      Recipes |-> RecipesOf(Shapes, 1, picked, time)]
    /\ all_recipes = BuildRules(Crafting.Recipes)
    /\ goal = Crafting.Goal
    /\ state = InitialState(Crafting.Items, Crafting.Initial)
    /\ h_kind \in {"reference", "any"}
    /\ pc = "outer"
    /\ SearchIdle
    /\ NoValues

\* the main program has compiled a domain over DiamondItems and is about to call
\* search
DiamondInit ==
    /\ \E picked \in SUBSET (1..Len(DiamondShapes)) :
       \E time \in [picked -> Costs], g \in DiamondGoals, initial \in Initials :
          Crafting = [Items |-> DiamondItems, Initial |-> initial, Goal |-> g,
                      Recipes |-> RecipesOf(DiamondShapes, 1, picked, time)]
    /\ all_recipes = BuildRules(Crafting.Recipes)
    /\ goal = Crafting.Goal
    /\ state = InitialState(Crafting.Items, Crafting.Initial)
    /\ h_kind \in {"reference", "any"}
    /\ pc = "outer"
    /\ SearchIdle
    /\ NoValues

SearchStep ==
    \/ StartPass
    \/ ReturnNone
    \/ Exhausted
    \/ PopGoal
    \/ Expand
    \/ WalkStep
    \/ ReturnPlan

Next == Tick \/ SearchStep

Spec == Init /\ [][Next]_vars

\* search on a domain over DiamondItems
DiamondSpec == DiamondInit /\ [][Next]_vars

\* the interpreter keeps executing search until it returns
FairSpec == Spec /\ WF_vars(SearchStep)

\* search called twice on the same arguments
NextTwice == Tick \/ SearchStep \/ Rerun
TwiceSpec == Init /\ [][NextTwice]_vars

(***************************************************************************)
(* The main program up to the call of search: the compilation loop over    *)
(* Crafting['Recipes'], the goal checker and the initial state.            *)
(***************************************************************************)
\* Crafting.json has been loaded, nothing is compiled yet
CompileInit ==
    /\ \E picked \in SUBSET (1..Len(RawShapes)) :
       \E time \in [picked -> RawCosts], g \in Goals, initial \in Initials :
          Crafting = [Items |-> Items, Initial |-> initial, Goal |-> g,
                      Recipes |-> RecipesOf(RawShapes, 1, picked, time)]
    /\ all_recipes = <<>>
    /\ goal = {}
    /\ state = None
    /\ h_kind = "reference"
    /\ pc = "compile"
    /\ SearchIdle
    /\ NoValues

\* lines 188-192: one turn of the compilation loop
CompileRule ==
    /\ pc = "compile"
    /\ Len(all_recipes) < Len(Crafting.Recipes)
    /\ all_recipes' = Append(all_recipes, Recipe(Crafting.Recipes[Len(all_recipes) + 1]))
    /\ UNCHANGED <<Crafting, goal, state, h_kind, value_vars, h_table, elapsed, pc,
                   pass_vars, walk_vars, result, hist_vars>>

\* lines 196-201: the goal checker and the initial state; search is called next
Setup ==
    /\ pc = "compile"
    /\ Len(all_recipes) = Len(Crafting.Recipes)
    /\ goal' = Crafting.Goal
    /\ state' = InitialState(Crafting.Items, Crafting.Initial)
    /\ pc' = "outer"
    /\ UNCHANGED <<Crafting, all_recipes, h_kind, value_vars, h_table, elapsed,
                   pass_vars, walk_vars, result, hist_vars>>

CompileNext == CompileRule \/ Setup

CompileSpec == CompileInit /\ [][CompileNext]_vars

(***************************************************************************)
(* State values on their own: two States filled item by item, and copied.  *)
(***************************************************************************)
StateInit ==
    /\ Crafting = [Items |-> Items, Initial |-> {}, Goal |-> {}, Recipes |-> <<>>]
    /\ all_recipes = <<>>
    /\ goal = {}
    /\ state = None
    /\ h_kind = "reference"
    /\ pc = "values"
    /\ SearchIdle
    /\ s1 = <<>>
    /\ s2 = <<>>
    /\ hashseed \in HashSeeds

\* s1[name] = v
SetItemFirst ==
    /\ pc = "values"
    /\ \E i \in 1..Len(Items), v \in Quantities : s1' = SetItem(s1, Items[i], v)
    /\ UNCHANGED <<Crafting, all_recipes, goal, state, h_kind, s2, hashseed, h_table,
                   elapsed, pc, pass_vars, walk_vars, result, hist_vars>>

\* s2[name] = v
SetItemSecond ==
    /\ pc = "values"
    /\ \E i \in 1..Len(Items), v \in Quantities : s2' = SetItem(s2, Items[i], v)
    /\ UNCHANGED <<Crafting, all_recipes, goal, state, h_kind, s1, hashseed, h_table,
                   elapsed, pc, pass_vars, walk_vars, result, hist_vars>>

\* s2 = s1.copy()
CopyFirst ==
    /\ pc = "values"
    /\ s2' = copy(s1)
    /\ UNCHANGED <<Crafting, all_recipes, goal, state, h_kind, s1, hashseed, h_table,
                   elapsed, pc, pass_vars, walk_vars, result, hist_vars>>

StateNext == SetItemFirst \/ SetItemSecond \/ CopyFirst

StateSpec == StateInit /\ [][StateNext]_vars

(***************************************************************************)
(* The goal predicate on its own: a goal checker made for some goal and    *)
(* applied to two States over the declared items whose quantities are set  *)
(* one by one.                                                             *)
(***************************************************************************)
GoalInit ==
    /\ \E g \in GoalMappings :
          Crafting = [Items |-> Items, Initial |-> {}, Goal |-> g, Recipes |-> <<>>]
    /\ all_recipes = <<>>
    /\ goal = Crafting.Goal
    /\ state = None
    /\ h_kind = "reference"
    /\ pc = "values"
    /\ SearchIdle
    /\ s1 = InitialState(Crafting.Items, Crafting.Initial)
    /\ s2 = InitialState(Crafting.Items, Crafting.Initial)
    /\ hashseed = 0

GoalSpec == GoalInit /\ [][StateNext]_vars

(***************************************************************************)
(* Notions the properties are stated with.                                 *)
(***************************************************************************)
Min(S) == CHOOSE x \in S : \A y \in S : x <= y

RecipeNames == {all_recipes[i].name : i \in 1..Len(all_recipes)}
RecipeNamed(name) == all_recipes[CHOOSE i \in 1..Len(all_recipes) : all_recipes[i].name = name]

\* rule r leads from s to t
Leads(r, s, t) == check(r.rule, s) /\ effect(r.rule, s) = t

Successors(s) == LET g == graph(s) IN {g[i].next : i \in 1..Len(g)}

\* the states reachable from the states of todo by applicable rules; a goal state
\* is an end point (with costs >= 0 no cheaper way to a goal leads through one)
RECURSIVE ReachFrom(_, _)
ReachFrom(seen, todo) ==
    IF todo = {} THEN seen
    ELSE LET s == CHOOSE s \in todo : TRUE
             nxt == IF is_goal(goal, s) THEN {} ELSE Successors(s)
         IN  ReachFrom(seen \cup {s}, (todo \cup nxt) \ (seen \cup {s}))
Reach(s) == ReachFrom({}, {s})

\* the steps <<u, t, cost>> a rule allows from a state of nodes that is no goal state
Edges(nodes) ==
    UNION {{<<u, graph(u)[i].next, graph(u)[i].cost>> : i \in 1..Len(graph(u))} :
              u \in {x \in nodes : ~is_goal(goal, x)}}

\* one round of relaxation of the distances D along the steps E
RelaxAll(D, E) ==
    [t \in DOMAIN D |-> Min({D[t]} \cup {Plus(D[e[1]], e[3]) : e \in {x \in E : x[2] = t}})]

RECURSIVE Distances(_, _, _)
Distances(D, E, k) == IF k = 0 THEN D ELSE Distances(RelaxAll(D, E), E, k - 1)

\* the least sum of costs of a rule sequence from s to a goal state; inf if none
Cheapest(s) ==
    LET nodes == Reach(s)
        E == Edges(nodes)
        D == Distances([t \in nodes |-> IF t = s THEN 0 ELSE inf], E, Cardinality(nodes))
    IN  Min({inf} \cup {D[g] : g \in {x \in nodes : is_goal(goal, x)}})

\* the sum of the costs of the rules named in a plan
RECURSIVE CostOfNames(_)
CostOfNames(p) ==
    IF p = <<>> THEN 0
    ELSE (IF Head(p)[2] \in RecipeNames THEN RecipeNamed(Head(p)[2]).cost ELSE 0)
         + CostOfNames(Tail(p))

Returned == pc = "done" /\ result.kind = "plan"

NonNegativeCosts == \A i \in 1..Len(all_recipes) : all_recipes[i].cost >= 0

\* every value the heuristic has returned is at most the cheapest remaining cost
Admissible ==
    /\ h_kind = "any"
    /\ \A s \in DOMAIN h_table : h_table[s] <= Cheapest(s)

\* the heuristic has returned one finite constant wherever it was called
ConstantHeuristic ==
    \/ h_kind = "reference"
    \/ \E k \in 0..MaxH : \A s \in DOMAIN h_table : h_table[s] = k

SameClauses(r, q) ==
    /\ r.rule.keys = q.rule.keys
    /\ r.rule.Consumes = q.rule.Consumes
    /\ r.rule.Requires = q.rule.Requires
    /\ r.rule.Produces = q.rule.Produces

PlanNames(p) == {p[i][2] : i \in 1..Len(p)}

(***************************************************************************)
(* C1: a returned plan starts with the initial state, ends with a state    *)
(* that satisfies is_goal, and every two consecutive states s, t of it are *)
(* joined by the rule the plan names with s: its check holds on s and its  *)
(* effect on s is t.                                                       *)
(***************************************************************************)
C1_PlanIsPath ==
    Returned =>
        LET p == result.plan
        IN  /\ Len(p) >= 1
            /\ p[1][1] = state
            /\ is_goal(goal, p[Len(p)][1])
            /\ \A i \in 1..(Len(p) - 1) :
                  /\ p[i][2] \in RecipeNames
                  /\ Leads(RecipeNamed(p[i][2]), p[i][1], p[i + 1][1])

\* a plan of three states has been returned
C1_Witness == Returned /\ Len(result.plan) >= 3

(***************************************************************************)
(* C6: in a returned plan the first pair is (initial state, sentinel), the *)
(* sentinel being no rule name, and every later pair (s, a) holds the name *)
(* a of the rule that led from the previous pair's state to s.             *)
(***************************************************************************)
C6_ActionLedToState ==
    Returned =>
        LET p == result.plan
        IN  /\ p[1][1] = state
            /\ p[1][2] \notin RecipeNames
            /\ \A i \in 2..Len(p) :
                  /\ p[i][2] \in RecipeNames
                  /\ Leads(RecipeNamed(p[i][2]), p[i - 1][1], p[i][1])

(***************************************************************************)
(* C2: with costs >= 0 and an admissible heuristic, a returned plan has    *)
(* the least total cost of all rule sequences from the initial state to a  *)
(* goal state.                                                             *)
(***************************************************************************)
C2_AdmissibleIsOptimal ==
    (Returned /\ NonNegativeCosts /\ Admissible) =>
        CostOfNames(result.plan) = Cheapest(state)

(***************************************************************************)
(* C3: with costs >= 0 and a heuristic that returns one finite constant, a *)
(* returned plan has the least total cost, and the goal state popped first *)
(* carries that least cost in cost_so_far.                                 *)
(***************************************************************************)
C3_ConstantIsOptimal ==
    (NonNegativeCosts /\ ConstantHeuristic) =>
        /\ Returned => CostOfNames(result.plan) = Cheapest(state)
        /\ (pc = "walk" /\ ret_list = <<<<current, "complete">>>>) =>
              cost_so_far[current] = Cheapest(state)

\* under a constant heuristic a plan of two rules was returned although one rule
\* leads from the initial state to a goal state at a higher cost
C3_Witness ==
    /\ Returned
    /\ ConstantHeuristic
    /\ Len(result.plan) >= 3
    /\ \E i \in 1..Len(all_recipes) :
          /\ check(all_recipes[i].rule, state)
          /\ is_goal(goal, effect(all_recipes[i].rule, state))
          /\ all_recipes[i].cost > CostOfNames(result.plan)

(***************************************************************************)
(* C7: of two rules with the same Consumes, Requires and Produces clauses  *)
(* and different costs, a returned plan never names the more expensive     *)
(* one, in either declaration order and under every heuristic.             *)
(***************************************************************************)
C7_CheaperTwinUsed ==
    Returned =>
        \A i, j \in 1..Len(all_recipes) :
            (SameClauses(all_recipes[i], all_recipes[j])
                /\ all_recipes[i].cost > all_recipes[j].cost)
            => all_recipes[i].name \notin PlanNames(result.plan)

\* a plan names the cheaper of two such rules, the more expensive one being
\* declared first
C7_Witness ==
    /\ Returned
    /\ \E i, j \in 1..Len(all_recipes) :
          /\ i < j
          /\ SameClauses(all_recipes[i], all_recipes[j])
          /\ all_recipes[i].cost > all_recipes[j].cost
          /\ all_recipes[j].name \in PlanNames(result.plan)

(***************************************************************************)
(* C4: when no goal state is reachable from the initial state (the         *)
(* reachable states being finitely many), search never returns a plan, it  *)
(* returns failure only after the deadline has elapsed, and once the       *)
(* deadline has elapsed it eventually returns failure.                     *)
(***************************************************************************)
GoalUnreachable == \A s \in Reach(state) : ~is_goal(goal, s)

C4_UnreachableFails ==
    /\ [](GoalUnreachable => result.kind # "plan")
    /\ [](result.kind = "None" => elapsed)
    /\ ((GoalUnreachable /\ elapsed) ~> (pc = "done" /\ result.kind = "None"))

\* failure was returned after a pass had popped two states and exhausted the
\* frontier and the search had started again
C4_Witness ==
    /\ GoalUnreachable
    /\ restarted
    /\ Len(first_pass) >= 2
    /\ pc = "done"
    /\ result.kind = "None"

(***************************************************************************)
(* C5: once the deadline has elapsed without a goal state having been      *)
(* popped, search returns failure without going on until the frontier is   *)
(* exhausted (after the deadline the inner loop pops no further state),    *)
(* and a returned plan is never a partial one.                             *)
(***************************************************************************)
C5_DeadlineEndsExpansion ==
    /\ [][(elapsed /\ pc = "inner") => popped' = popped]_vars
    /\ [](Returned => (result.plan[1][1] = state
                       /\ is_goal(goal, result.plan[Len(result.plan)][1])))

(***************************************************************************)
(* C8: search is deterministic.  Two calls on the same rule list, initial  *)
(* state, goal and heuristic that both find the goal in their first pass   *)
(* pop the same states in the same order and return the same plan; and a   *)
(* pass started after a restart pops the states the first pass popped.     *)
(***************************************************************************)
IsPrefix(s, t) == Len(s) <= Len(t) /\ SubSeq(t, 1, Len(s)) = s

C8_Deterministic ==
    /\ (restarted /\ pc = "inner") => IsPrefix(popped, first_pass)
    /\ (restarted /\ pc = "outer") => popped = first_pass
    /\ (run = 2 /\ Returned /\ ~restarted
            /\ last_run.result.kind = "plan" /\ ~last_run.restarted) =>
          /\ popped = last_run.popped
          /\ result = last_run.result

\* the second call has returned a plan after popping three states, neither call
\* having restarted
C8_Witness ==
    /\ run = 2
    /\ Returned
    /\ ~restarted
    /\ last_run.result.kind = "plan"
    /\ ~last_run.restarted
    /\ Len(popped) >= 3
    /\ Len(result.plan) >= 3

(***************************************************************************)
(* C9: compilation fails fast on malformed data: a rule that names an item *)
(* Crafting['Items'] does not declare, or whose cost is negative, is never *)
(* compiled into a Recipe, and search is not reached with such a rule.     *)
(***************************************************************************)
Declared == {Crafting.Items[i] : i \in 1..Len(Crafting.Items)}

WellFormed(rule) ==
    /\ {p[1] : p \in rule.Consumes} \subseteq Declared
    /\ rule.Requires \subseteq Declared
    /\ {p[1] : p \in rule.Produces} \subseteq Declared
    /\ rule.Time >= 0

C9_MalformedRejected ==
    /\ \A i \in 1..Len(all_recipes) : WellFormed(all_recipes[i].rule)
    /\ pc = "outer" => \A i \in 1..Len(Crafting.Recipes) : WellFormed(Crafting.Recipes[i])

(***************************************************************************)
(* C10 as stated: two States that hold the same quantity for every item    *)
(* are equal and have equal hashes, whatever the order of insertion; and   *)
(* equal States have equal hashes.                                         *)
(***************************************************************************)
SameQuantities(s, t) ==
    /\ Keys(s) = Keys(t)
    /\ \A k \in Keys(s) : Get(s, k) = Get(t, k)

SameOrder(s, t) ==
    /\ Len(s) = Len(t)
    /\ \A i \in 1..Len(s) : s[i][1] = t[i][1] /\ s[i][2] = t[i][2]

Recorded == DOMAIN cost_so_far \cup {frontier[i][2] : i \in 1..Len(frontier)}

\* the state search has just expanded: the one graph and the effects were last
\* applied to
LastPopped == IF pc = "inner" /\ popped # <<>> THEN {current} ELSE {}

NonNegative(st) == \A i \in 1..Len(st) : st[i][2] >= 0

NonNegativeAmounts ==
    \A i \in 1..Len(all_recipes) :
        \A p \in all_recipes[i].rule.Consumes \cup all_recipes[i].rule.Produces : p[2] >= 0

C11_QuantitiesNonNegative ==
    (NonNegative(state) /\ NonNegativeAmounts) =>
        /\ \A s \in Recorded : NonNegative(s)
        /\ \A s \in LastPopped : \A i \in 1..Len(all_recipes) :
              check(all_recipes[i].rule, s) =>
                  \A p \in all_recipes[i].rule.Consumes :
                      Get(effect(all_recipes[i].rule, s), p[1]) >= 0

\* a recorded state in which a rule has used up an item the initial state held
C11_Witness ==
    /\ pc = "inner"
    /\ \E s \in DOMAIN cost_so_far :
          /\ came_from_dict[s] # None
          /\ \E k \in Keys(s) : Get(s, k) = 0 /\ Get(state, k) > 0

(***************************************************************************)
(* C12: on every popped state graph yields, in declaration order, one      *)
(* triple (name, effect(state), cost) for each rule whose check holds on   *)
(* the state and nothing else, so at most as many triples as rules; and    *)
(* every successor recorded from it comes from a rule whose check holds on *)
(* it.                                                                     *)
(***************************************************************************)
Applicable(st) == SelectSeq(all_recipes, LAMBDA r : check(r.rule, st))

C12_GraphYieldsApplicable ==
    /\ \A s \in LastPopped : \A g \in {graph(s)} : \A ap \in {Applicable(s)} :
              /\ Len(g) = Len(ap)
              /\ Len(g) <= Len(all_recipes)
              /\ \A i \in 1..Len(g) :
                    g[i] = [name |-> ap[i].name, next |-> effect(ap[i].rule, s),
                            cost |-> ap[i].cost]
    /\ \A t \in DOMAIN came_from_dict :
          (came_from_dict[t] # None /\ came_from_dict[t][1] \in LastPopped) =>
              /\ came_from_dict[t][2] \in RecipeNames
              /\ Leads(RecipeNamed(came_from_dict[t][2]), came_from_dict[t][1], t)

\* a state has been expanded on which some rules are applicable and others are not
C12_Witness ==
    /\ pc = "inner"
    /\ Len(popped) >= 1
    /\ Len(graph(current)) > 0
    /\ Len(graph(current)) < Len(all_recipes)
    /\ \E t \in DOMAIN came_from_dict :
          came_from_dict[t] # None /\ came_from_dict[t][1] = current

(***************************************************************************)
(* C18: the effect of a rule on a state on which its check holds returns a *)
(* state with the same keys in the same order, each Consumes item reduced  *)
(* and each Produces item increased by its amount, every other item as it  *)
(* was; the state it was applied to stays as it was recorded; and every    *)
(* recorded state has the keys of the initial state, in the same order.    *)
(***************************************************************************)
KeySeq(st) == [i \in 1..Len(st) |-> st[i][1]]

Amount(m, k) == IF \E p \in m : p[1] = k THEN (CHOOSE p \in m : p[1] = k)[2] ELSE 0

C18_EffectKeepsFrame ==
    /\ \A s \in Recorded : KeySeq(s) = KeySeq(state) /\ KeySeq(s) = Crafting.Items
    /\ \A i \in 1..Len(popped) : popped[i] \in DOMAIN cost_so_far
    /\ \A s \in LastPopped : \A i \in 1..Len(all_recipes) :
          \A rule \in {all_recipes[i].rule} :
              check(rule, s) => \A t \in {effect(rule, s)} :
                  /\ KeySeq(t) = KeySeq(s)
                  /\ \A k \in Keys(s) :
                        Get(t, k) = Get(s, k) - Amount(rule.Consumes, k)
                                              + Amount(rule.Produces, k)

\* a successor was recorded through a rule that has a Requires clause
C18_Witness ==
    /\ Len(popped) >= 2
    /\ \E t \in DOMAIN came_from_dict :
          /\ came_from_dict[t] # None
          /\ RecipeNamed(came_from_dict[t][2]).rule.Requires # {}
          /\ t # came_from_dict[t][1]

(***************************************************************************)
(* C13: the goal predicate is monotonic: if is_goal holds on a state and a *)
(* second state over the same items holds at least as much of every item,  *)
(* is_goal holds on the second state; and two states that agree on the     *)
(* items the goal names get the same answer.                               *)
(***************************************************************************)
AtLeast(t, s) == Keys(t) = Keys(s) /\ \A k \in Keys(s) : Get(t, k) >= Get(s, k)

C13_GoalMonotonic ==
    /\ (is_goal(goal, s1) /\ AtLeast(s2, s1)) => is_goal(goal, s2)
    /\ (Keys(s1) = Keys(s2) /\ \A p \in goal : Get(s1, p[1]) = Get(s2, p[1])) =>
          (is_goal(goal, s1) <=> is_goal(goal, s2))

\* the goal holds on s1, and s2 holds more of an item the goal names and more of
\* an item it does not name
C13_Witness ==
    /\ is_goal(goal, s1)
    /\ AtLeast(s2, s1)
    /\ \E p \in goal : Get(s2, p[1]) > Get(s1, p[1])
    /\ \E k \in Keys(s1) \ {p[1] : p \in goal} : Get(s2, k) > Get(s1, k)

(***************************************************************************)
(* C14: when current is expanded, each successor (action, next, cost) with *)
(* new_cost = cost_so_far[current] + cost is handled in turn: if next has  *)
(* no recorded cost or new_cost is strictly less than the recorded one,    *)
(* the cost of next becomes new_cost, its predecessor (current, action)    *)
(* and (new_cost + heuristic(current), next) is pushed; otherwise the cost *)
(* map, the predecessor map and the frontier stay as they are.  Within a   *)
(* pass the recorded cost of a state never increases.                      *)
(***************************************************************************)
\* a step that pops a state that is no goal and handles its successors
ExpandStep == pc = "inner" /\ pc' = "inner" /\ popped' # popped

C14_Relaxation ==
    /\ [][ExpandStep =>
            \A cur \in {current'} : \A succs \in {graph(cur)} :
            LET hv == IF h_kind = "reference" THEN heuristic(cur)
                      ELSE IF cur \in DOMAIN h_table' THEN h_table'[cur] ELSE 0
                NewCost(i) == cost_so_far[cur] + succs[i].cost
                \* the costs known for the i-th successor when its turn comes
                Prior(i) ==
                    {cost_so_far[t] : t \in {succs[i].next} \cap DOMAIN cost_so_far}
                    \cup {NewCost(j) : j \in {k \in 1..(i - 1) : succs[k].next = succs[i].next}}
                Better(i) == Prior(i) = {} \/ NewCost(i) < Min(Prior(i))
                Last(i) == \A j \in (i + 1)..Len(succs) :
                               ~(succs[j].next = succs[i].next /\ Better(j))
                Pushes == SelectSeq([i \in 1..Len(succs) |-> i], LAMBDA i : Better(i))
            IN  /\ \A i \in 1..Len(succs) :
                      (Better(i) /\ Last(i)) =>
                          /\ succs[i].next \in DOMAIN cost_so_far'
                          /\ cost_so_far'[succs[i].next] = NewCost(i)
                          /\ came_from_dict'[succs[i].next] = <<cur, succs[i].name>>
                /\ frontier' = HeapRest(frontier) \o
                       [k \in 1..Len(Pushes) |->
                           <<Plus(NewCost(Pushes[k]), hv), succs[Pushes[k]].next>>]
                /\ \A t \in DOMAIN cost_so_far' :
                      (\A i \in 1..Len(succs) : ~(succs[i].next = t /\ Better(i))) =>
                          /\ t \in DOMAIN cost_so_far
                          /\ cost_so_far'[t] = cost_so_far[t]
                          /\ came_from_dict'[t] = came_from_dict[t]]_vars
    /\ [][pc = "inner" =>
            \A t \in DOMAIN cost_so_far :
                t \in DOMAIN cost_so_far' /\ cost_so_far'[t] <= cost_so_far[t]]_vars

\* current has just been expanded: one successor improved on a cost recorded in
\* the same expansion, another did not improve on the cost recorded for it
C14_Witness ==
    /\ pc = "inner"
    /\ popped # <<>>
    /\ popped[Len(popped)] = current
    /\ LET g == graph(current)
       IN  /\ \E i, j \in 1..Len(g) :
                 /\ i < j
                 /\ g[i].next = g[j].next
                 /\ came_from_dict[g[j].next] = <<current, g[j].name>>
           /\ \E k \in 1..Len(g) :
                 cost_so_far[g[k].next] < cost_so_far[current] + g[k].cost

(***************************************************************************)
(* C15: when search returns a plan, the cost recorded for the goal state   *)
(* it popped (cost_so_far[current], printed as the plan's cost) is the sum *)
(* of the costs of the rules the plan names, whatever non-negative or      *)
(* infinite values the heuristic returns.                                  *)
(***************************************************************************)
C15_RecordedCostIsPlanCost ==
    Returned => cost_so_far[current] = CostOfNames(result.plan)

(***************************************************************************)
(* C16: the deadline is tested only when a pass is about to start: failure *)
(* is never returned while the frontier is non-empty, and a goal state     *)
(* popped after the deadline has elapsed is still returned as a plan.      *)
(***************************************************************************)
C16_DeadlineOnlyAtPassStart ==
    /\ [](result.kind = "None" => frontier = <<>>)
    /\ [][(pc = "inner" /\ frontier # <<>>) => result'.kind # "None"]_vars
    /\ [][(elapsed /\ pc = "inner" /\ frontier # <<>>
              /\ is_goal(goal, HeapMin(frontier)[2])) =>
            (pc' = "walk" /\ current' = HeapMin(frontier)[2])]_vars
    /\ [][(elapsed /\ pc = "walk") =>
            \/ pc' = "walk"
            \/ /\ pc' = "done"
               /\ result'.kind = "plan"
               /\ result'.plan[Len(result'.plan)][1] = current]_vars
    /\ ((elapsed /\ pc = "walk") ~> Returned)

\* the deadline has elapsed in a pass that has expanded a state, and the entry
\* to pop next holds a goal state
C16_Witness ==
    /\ elapsed
    /\ pc = "inner"
    /\ popped # <<>>
    /\ frontier # <<>>
    /\ is_goal(goal, HeapMin(frontier)[2])

(***************************************************************************)
(* C17: when the frontier becomes empty without a goal state having been   *)
(* popped and the deadline has not elapsed, search starts a fresh pass:    *)
(* the frontier holds only the initial state at priority 0, the cost map   *)
(* only the initial state with cost 0, the predecessor map only the        *)
(* initial state with no predecessor; nothing of the pass before is kept.  *)
(***************************************************************************)
FreshPass ==
    /\ frontier = <<<<0, state>>>>
    /\ cost_so_far = (state :> 0)
    /\ came_from_dict = (state :> None)

C17_RestartIsFresh ==
    /\ []((pc = "inner" /\ popped = <<>>) => FreshPass)
    /\ [][(pc = "inner" /\ frontier = <<>>) => (pc' = "outer" \/ elapsed' # elapsed)]_vars
    /\ [][(pc = "outer" /\ ~elapsed) =>
            (elapsed' \/ (pc' = "inner" /\ popped' = <<>>))]_vars

\* a pass has just started after a pass that popped two states and exhausted the
\* frontier
C17_Witness ==
    /\ restarted
    /\ Len(first_pass) >= 2
    /\ pc = "inner"
    /\ popped = <<>>

(***************************************************************************)
(* C19: each pop removes from the frontier an entry whose priority is the  *)
(* smallest on the frontier, a tie between equal priorities going to the   *)
(* state whose item tuple is smallest; so an entry of infinite priority is *)
(* never popped while an entry of finite priority is on the frontier.      *)
(***************************************************************************)
Without(heap, i) == SubSeq(heap, 1, i - 1) \o SubSeq(heap, i + 1, Len(heap))

C19_PopsSmallest ==
    [][(pc = "inner" /\ popped' # popped) =>
        \E i \in 1..Len(frontier) :
            /\ frontier[i][2] = current'
            /\ popped' = Append(popped, current')
            /\ SubSeq(frontier', 1, Len(frontier) - 1) = Without(frontier, i)
            /\ \A j \in 1..Len(frontier) :
                  /\ frontier[i][1] <= frontier[j][1]
                  /\ frontier[j][1] = frontier[i][1] =>
                        ~TupleLt(Key(frontier[j][2]), Key(frontier[i][2]))
                  /\ frontier[j][1] < inf => frontier[i][1] < inf]_vars

\* after two pops the frontier holds an entry of infinite priority that was
\* already on it at the last pop, next to an entry of finite priority
C19_Witness ==
    /\ pc = "inner"
    /\ Len(popped) >= 2
    /\ popped[Len(popped)] = current
    /\ \E i, j \in 1..Len(frontier) :
          /\ frontier[i][1] = inf
          /\ came_from_dict[frontier[i][2]] # None
          /\ came_from_dict[frontier[i][2]][1] # current
          /\ frontier[j][1] < inf

(***************************************************************************)
(* C20: with costs >= 0, in a pass the predecessor map has no cycle, the   *)
(* entry of the initial state (no predecessor, cost 0) is never            *)
(* overwritten, and following predecessors from a recorded state reaches   *)
(* the initial state in finitely many steps; so the walk-back ends.        *)
(***************************************************************************)
\* following predecessors from t reaches the initial state within n steps
RECURSIVE ReachesInitial(_, _)
ReachesInitial(t, n) ==
    IF t = state THEN TRUE
    ELSE IF n = 0 \/ t \notin DOMAIN came_from_dict THEN FALSE
    ELSE IF came_from_dict[t] = None THEN FALSE
    ELSE ReachesInitial(came_from_dict[t][1], n - 1)

C20_PredecessorsLeadToInitial ==
    (NonNegativeCosts /\ pc \in {"inner", "walk", "done"} /\ cost_so_far # EmptyDict) =>
        /\ DOMAIN came_from_dict = DOMAIN cost_so_far
        /\ came_from_dict[state] = None
        /\ cost_so_far[state] = 0
        /\ \A t \in DOMAIN came_from_dict :
              ReachesInitial(t, Cardinality(DOMAIN came_from_dict) - 1)
        /\ pc = "walk" =>
              /\ came_from \in DOMAIN came_from_dict
              /\ Len(ret_list) <= Cardinality(DOMAIN came_from_dict)

\* a state two steps from the initial state is recorded, and a popped state has
\* the initial state among its successors
C20_Witness ==
    /\ pc = "inner"
    /\ \E t \in DOMAIN came_from_dict :
          /\ came_from_dict[t] # None
          /\ came_from_dict[came_from_dict[t][1]] # None
    /\ \E i \in 1..Len(popped) :
          popped[i] # state /\ state \in Successors(popped[i])

=============================================================================
